---- MODULE Spec2Model ----
(***************************************************************************)
(* Model of stator-3d/src/StatorModel.jsx: the helical coil generator, the *)
(* part builders and the assembly composer (a scene graph of Group and     *)
(* Mesh nodes), and the life cycle of the React effect that hosts them.    *)
(*                                                                         *)
(* Numbers.  JavaScript numbers are modelled as exact rationals <<n, d>>   *)
(* in lowest terms with d > 0; <<0, 0>> is NaN.  Lengths are counted in    *)
(* thousandths of a scene unit (0.72 is 720), angles in units of pi        *)
(* (Math.PI / 2 is <<1, 2>>).  cos and sin are kept symbolic: the number   *)
(* r * cos(a) is the term [f |-> "cos", r |-> r, a |-> a].                 *)
(***************************************************************************)
EXTENDS Integers, Sequences, FiniteSets, TLC

VARIABLES
    coilArgs,     \* the arguments of the createCoilGeometry call under study
    coilResult,   \* its outcome: pending, returned (a geometry) or thrown
    leadsOut,     \* the outcome of the createWireLeads call under study
    heap,         \* the objects allocated so far: Object3D nodes and geometries
    calls,        \* one record per call of assembleStator, in call order
    pc,           \* where the running call of assembleStator stands
    armI,         \* the index of armAngles.forEach in the running call
    view,         \* per run of the React effect: its closure and what it holds
    rafPending,   \* the browser's pending animation-frame requests
    rafNext,      \* the id the next requestAnimationFrame call returns
    size,         \* the container's current client size
    resizes       \* the number of resize events dispatched so far

vars == <<coilArgs, coilResult, leadsOut, heap, calls, pc, armI,
          view, rafPending, rafNext, size, resizes>>

coilVars == <<coilArgs, coilResult>>

asmVars == <<heap, calls, pc, armI>>

\* What the steps of assembleStator leave alone.
otherVars == <<coilArgs, coilResult, leadsOut, view, rafPending, rafNext, size, resizes>>

viewVars == <<view, rafPending, rafNext, size, resizes>>

(***************************************************************************)
(* Rational arithmetic                                                     *)
(***************************************************************************)
Abs(n) == IF n < 0 THEN -n ELSE n

RECURSIVE GCD(_, _)
GCD(a, b) == IF b = 0 THEN a ELSE GCD(b, a % b)

NaN == <<0, 0>>

IsNaN(q) == q[2] = 0

\* n / d as a JavaScript number: 0 / 0 is NaN.
Rat(n, d) ==
    IF d = 0 THEN NaN
    ELSE LET g == GCD(Abs(n), Abs(d))
             s == IF d < 0 THEN -1 ELSE 1
         IN  <<(s * n) \div g, (s * d) \div g>>

Int2Rat(n) == <<n, 1>>

RatAdd(p, q) ==
    IF IsNaN(p) \/ IsNaN(q) THEN NaN ELSE Rat(p[1] * q[2] + q[1] * p[2], p[2] * q[2])

RatSub(p, q) ==
    IF IsNaN(p) \/ IsNaN(q) THEN NaN ELSE Rat(p[1] * q[2] - q[1] * p[2], p[2] * q[2])

RatMul(p, q) ==
    IF IsNaN(p) \/ IsNaN(q) THEN NaN ELSE Rat(p[1] * q[1], p[2] * q[2])

\* p / q; the only division by zero the program performs is 0 / 0.
RatDiv(p, q) ==
    IF IsNaN(p) \/ IsNaN(q) THEN NaN ELSE Rat(p[1] * q[2], p[2] * q[1])

\* Comparisons with NaN are false, as in JavaScript.
RatLT(p, q) == ~IsNaN(p) /\ ~IsNaN(q) /\ p[1] * q[2] < q[1] * p[2]

RatLE(p, q) == ~IsNaN(p) /\ ~IsNaN(q) /\ p[1] * q[2] <= q[1] * p[2]

Half == Rat(1, 2)

\* r * Math.cos(a) and r * Math.sin(a), a in units of pi (NaN stays inside).
TimesCos(r, a) == [f |-> "cos", r |-> r, a |-> a]

TimesSin(r, a) == [f |-> "sin", r |-> r, a |-> a]

Vector3(x, y, z) == [x |-> x, y |-> y, z |-> z]

(***************************************************************************)
(* The THREE curve and tube constructors, as far as the program uses them  *)
(***************************************************************************)
CatmullRomCurve3(points, closed) ==
    [type |-> "CatmullRomCurve3", points |-> points, closed |-> closed]

TubeBufferGeometry(path, tubularSegments, radius, radialSegments, closed) ==
    [type |-> "TubeBufferGeometry", path |-> path,
     tubularSegments |-> tubularSegments, radius |-> radius,
     radialSegments |-> radialSegments, closed |-> closed]

Returned(value) == [status |-> "returned", value |-> value]

Thrown(error) == [status |-> "thrown", error |-> error]

Pending == [status |-> "pending"]

\* What `new THREE.TubeBufferGeometry(...)` does.  The constructor samples
\* the path at once (computeFrenetFrames): on a path of two or more points
\* it returns the tube; on a path of fewer points the sampling reads a
\* point that is not there and a TypeError leaves the constructor.
NewTube(path, tubularSegments, radius, radialSegments, closed) ==
    IF Len(path.points) < 2
    THEN Thrown("TypeError")
    ELSE Returned(TubeBufferGeometry(path, tubularSegments, radius, radialSegments, closed))

(***************************************************************************)
(* createCoilGeometry                                                      *)
(***************************************************************************)
SamplesPerTurn == 32

RadialSegments == 8

\* const t = i / totalPoints
CoilT(i, totalPoints) == RatDiv(Int2Rat(i), Int2Rat(totalPoints))

\* const angle = t * turns * Math.PI * 2, in units of pi
CoilAngle(t, turns) == RatMul(RatMul(t, Int2Rat(turns)), Int2Rat(2))

\* The axial coordinate without the centring: t * length.
CoilYFromZero(t, length) == RatMul(t, Int2Rat(length))

\* const y = (t - 0.5) * length
CoilY(t, length) == RatMul(RatSub(t, Half), Int2Rat(length))

\* The body of the loop for one i: the Vector3 pushed.
CoilPoint(i, totalPoints, innerRadius, length, turns) ==
    LET t     == CoilT(i, totalPoints)
        angle == CoilAngle(t, turns)
    IN  Vector3(TimesCos(innerRadius, angle), CoilY(t, length),
                TimesSin(innerRadius, angle))

\* The loop's condition with the last sample left out: i < totalPoints.
CoilLoopCondExclusive(i, totalPoints) == i < totalPoints

\* The loop's condition, i <= totalPoints.
CoilLoopCond(i, totalPoints) == i <= totalPoints

\* The values i takes in `for (let i = 0; i <= totalPoints; i++)`: the loop
\* counts up from 0 and stops at the first i that fails the condition.
CoilLoopLast(totalPoints) ==
    IF CoilLoopCond(0, totalPoints)
    THEN LET stops == {i \in 1 .. totalPoints + 1 : ~CoilLoopCond(i, totalPoints)}
         IN  (CHOOSE i \in stops : \A j \in stops : i <= j) - 1
    ELSE -1

\* The loop: one point pushed per iteration, in the order of i.
CoilLoop(totalPoints, innerRadius, length, turns) ==
    [k \in 1 .. CoilLoopLast(totalPoints) + 1 |->
        CoilPoint(k - 1, totalPoints, innerRadius, length, turns)]

CoilTotalPoints(turns) == turns * SamplesPerTurn

CoilPoints(innerRadius, length, turns) ==
    CoilLoop(CoilTotalPoints(turns), innerRadius, length, turns)

CoilCurve(innerRadius, length, turns) ==
    CatmullRomCurve3(CoilPoints(innerRadius, length, turns), FALSE)

\* The outcome of createCoilGeometry(innerRadius, length, turns, wireRadius):
\* the function itself checks nothing and throws nothing; it ends as the
\* tube constructor ends.
createCoilGeometry(innerRadius, length, turns, wireRadius) ==
    NewTube(CoilCurve(innerRadius, length, turns),
                 CoilTotalPoints(turns) * 2, wireRadius, RadialSegments, FALSE)

(***************************************************************************)
(* Objects.  heap.nodes[id] is an Object3D (a Group or a Mesh) and         *)
(* heap.geoms[g] a geometry; an id is the object's identity.  A node's     *)
(* parent is 0 (null), a node id, or the negative id of a caller's Scene.  *)
(* A material is identified by its palette (one createMaterials call) and  *)
(* its name in it.                                                         *)
(***************************************************************************)
EmptyHeap == [nodes |-> <<>>, geoms |-> <<>>]

Zero == Int2Rat(0)

NoMaterial == [palette |-> 0, name |-> "none"]

Range(seq) == {seq[k] : k \in 1 .. Len(seq)}

\* new THREE.Group(): at the origin, unrotated, childless, parentless.
GroupNode ==
    [type |-> "Group", geometry |-> 0, material |-> NoMaterial,
     position |-> [x |-> 0, y |-> 0, z |-> 0],
     rotation |-> [x |-> Zero, y |-> Zero, z |-> Zero],
     children |-> <<>>, parent |-> 0]

MeshNode(geometry, material) ==
    [GroupNode EXCEPT !.type = "Mesh", !.geometry = geometry, !.material = material]

\* The id the next allocated node gets.
NextNode(h) == Len(h.nodes) + 1

NewGroup(h) == [h EXCEPT !.nodes = Append(@, GroupNode)]

\* A Mesh on a cached geometry: an equal geometry built before is reused
\* instead of a fresh one.
NewMeshCachedGeometry(h, geometry, material) ==
    LET same == {g \in 1 .. Len(h.geoms) : h.geoms[g] = geometry}
    IN  IF same = {}
        THEN [nodes |-> Append(h.nodes, MeshNode(Len(h.geoms) + 1, material)),
              geoms |-> Append(h.geoms, geometry)]
        ELSE [h EXCEPT !.nodes = Append(@, MeshNode(CHOOSE g \in same : TRUE, material))]

\* new THREE.Mesh(new THREE.<Geometry>(...), material): a fresh geometry
\* object and a fresh Mesh referring to it.
NewMesh(h, geometry, material) ==
    [nodes |-> Append(h.nodes, MeshNode(Len(h.geoms) + 1, material)),
     geoms |-> Append(h.geoms, geometry)]

\* parent.add(child) of THREE.Object3D: the child leaves its former parent,
\* if any, and becomes the last child of the new one.
Add(h, parent, child) ==
    LET old == h.nodes[child].parent
        n0  == IF old > 0
               THEN [h.nodes EXCEPT ![old].children = SelectSeq(@, LAMBDA c : c # child)]
               ELSE h.nodes
    IN  [h EXCEPT !.nodes = [n0 EXCEPT ![parent].children = Append(@, child),
                                       ![child].parent = parent]]

SetPosition(h, id, axis, value) ==
    [h EXCEPT !.nodes[id].position[axis] = value]

SetRotation(h, id, axis, angle) ==
    [h EXCEPT !.nodes[id].rotation[axis] = angle]

BoxBufferGeometry(width, height, depth) ==
    [type |-> "BoxBufferGeometry", width |-> width, height |-> height, depth |-> depth]

CylinderBufferGeometry(radiusTop, radiusBottom, height, radialSegments) ==
    [type |-> "CylinderBufferGeometry", radiusTop |-> radiusTop,
     radiusBottom |-> radiusBottom, height |-> height,
     radialSegments |-> radialSegments]

TorusBufferGeometry(radius, tube, radialSegments, tubularSegments) ==
    [type |-> "TorusBufferGeometry", radius |-> radius, tube |-> tube,
     radialSegments |-> radialSegments, tubularSegments |-> tubularSegments]

\* What a builder returns: the heap after it and the node it built.
Built(h, id) == [heap |-> h, id |-> id]

\* createMaterials(): five fresh materials; p numbers the call.
createMaterials(p) ==
    [black     |-> [palette |-> p, name |-> "black"],
     copper    |-> [palette |-> p, name |-> "copper"],
     silver    |-> [palette |-> p, name |-> "silver"],
     darkMetal |-> [palette |-> p, name |-> "darkMetal"],
     white     |-> [palette |-> p, name |-> "white"]]

\* The tube createCoilGeometry returns to a builder (the builders pass
\* literals on which it returns).
CoilGeometry(innerRadius, length, turns, wireRadius) ==
    createCoilGeometry(innerRadius, length, turns, wireRadius).value

(***************************************************************************)
(* The part builders                                                       *)
(***************************************************************************)
HubSize == 550

createHub(h, materials) ==
    LET group    == NextNode(h)
        h1       == NewGroup(h)
        hub      == NextNode(h1)
        h2       == NewMesh(h1, BoxBufferGeometry(HubSize, (HubSize * 70) \div 100, HubSize),
                            materials.black)
        h3       == Add(h2, group, hub)
        edgeMesh == NextNode(h3)
        h4       == NewMesh(h3, CylinderBufferGeometry((HubSize * 52) \div 100,
                                    (HubSize * 52) \div 100, (HubSize * 68) \div 100, 6),
                            materials.black)
        h5       == SetRotation(h4, edgeMesh, "x", Rat(1, 2))
        h6       == SetRotation(h5, edgeMesh, "z", Rat(1, 6))
        h7       == Add(h6, group, edgeMesh)
    IN  Built(h7, group)

createBearing(h, materials) ==
    LET group     == NextNode(h)
        h1        == NewGroup(h)
        outerRing == NextNode(h1)
        h2        == NewMesh(h1, TorusBufferGeometry(220, 40, 16, 32), materials.silver)
        h3        == Add(h2, group, outerRing)
        innerRing == NextNode(h3)
        h4        == NewMesh(h3, TorusBufferGeometry(120, 30, 16, 32), materials.silver)
        h5        == Add(h4, group, innerRing)
        shield    == NextNode(h5)
        h6        == NewMesh(h5, CylinderBufferGeometry(200, 200, 40, 32), materials.darkMetal)
        h7        == SetRotation(h6, shield, "x", Rat(1, 2))
        h8        == Add(h7, group, shield)
    IN  Built(h8, group)

createShaft(h, materials) ==
    LET shaft == NextNode(h)
        h1    == NewMesh(h, CylinderBufferGeometry(50, 50, 1400, 16), materials.darkMetal)
        h2    == SetRotation(h1, shaft, "x", Rat(1, 2))
        h3    == SetPosition(h2, shaft, "z", -500)
    IN  Built(h3, shaft)

createArm(h, materials) ==
    LET group       == NextNode(h)
        h1          == NewGroup(h)
        arm         == NextNode(h1)
        h2          == NewMesh(h1, BoxBufferGeometry(220, 280, 900), materials.black)
        h3          == SetPosition(h2, arm, "z", 700)
        h4          == Add(h3, group, arm)
        flangeInner == NextNode(h4)
        h5          == NewMesh(h4, BoxBufferGeometry(400, 450, 60), materials.black)
        h6          == SetPosition(h5, flangeInner, "z", 300)
        h7          == Add(h6, group, flangeInner)
        flangeOuter == NextNode(h7)
        h8          == NewMesh(h7, BoxBufferGeometry(400, 450, 60), materials.black)
        h9          == SetPosition(h8, flangeOuter, "z", 1100)
        h10         == Add(h9, group, flangeOuter)
    IN  Built(h10, group)

\* const coilGeo = createCoilGeometry(0.22, 0.72, 18, 0.032)
ArmCoilGeo == CoilGeometry(220, 720, 18, 32)

createArmWithCoil(h, materials) ==
    LET group == NextNode(h)
        h1    == NewGroup(h)
        arm   == createArm(h1, materials)
        h2    == Add(arm.heap, group, arm.id)
        coil  == NextNode(h2)
        h3    == NewMesh(h2, ArmCoilGeo, materials.copper)
        h4    == SetRotation(h3, coil, "x", Rat(1, 2))
        h5    == SetPosition(h4, coil, "z", 700)
        h6    == Add(h5, group, coil)
    IN  Built(h6, group)

createVerticalPost(h, materials) ==
    LET group        == NextNode(h)
        h1           == NewGroup(h)
        post         == NextNode(h1)
        h2           == NewMesh(h1, BoxBufferGeometry(200, 1000, 200), materials.black)
        h3           == SetPosition(h2, post, "y", 700)
        h4           == Add(h3, group, post)
        flangeBottom == NextNode(h4)
        h5           == NewMesh(h4, BoxBufferGeometry(380, 60, 380), materials.black)
        h6           == SetPosition(h5, flangeBottom, "y", 250)
        h7           == Add(h6, group, flangeBottom)
        flangeTop    == NextNode(h7)
        h8           == NewMesh(h7, BoxBufferGeometry(380, 60, 380), materials.black)
        h9           == SetPosition(h8, flangeTop, "y", 1150)
        h10          == Add(h9, group, flangeTop)
        cap          == NextNode(h10)
        h11          == NewMesh(h10, BoxBufferGeometry(350, 80, 350), materials.black)
        h12          == SetPosition(h11, cap, "y", 1550)
        h13          == Add(h12, group, cap)
    IN  Built(h13, group)

\* const coilGeo = createCoilGeometry(0.2, 0.82, 14, 0.035)
VerticalCoilGeo == CoilGeometry(200, 820, 14, 35)

createVerticalCoil(h, materials) ==
    LET coil == NextNode(h)
        h1   == NewMesh(h, VerticalCoilGeo, materials.copper)
        h2   == SetPosition(h1, coil, "y", 700)
    IN  Built(h2, coil)

createBackingPlate(h, materials) ==
    LET plate == NextNode(h)
        h1    == NewMesh(h, CylinderBufferGeometry(480, 480, 60, 32), materials.white)
        h2    == SetRotation(h1, plate, "x", Rat(1, 2))
        h3    == SetPosition(h2, plate, "z", 120)
    IN  Built(h3, plate)

(***************************************************************************)
(* createWireLeads.  Math.random() returns a number r with 0 <= r < 1; the *)
(* call draws six of them, in the order wire 1 x, wire 1 z, wire 2 x, ...  *)
(***************************************************************************)
\* The table with its last wire missing.
wirePositionsShort ==
    << [start |-> <<100, 1400, 0>>,  end |-> <<150, 2000, 100>>],
       [start |-> <<-50, 1400, 50>>, end |-> <<-200, 2100, -50>>] >>

wirePositions ==
    << [start |-> <<100, 1400, 0>>,  end |-> <<150, 2000, 100>>],
       [start |-> <<-50, 1400, 50>>, end |-> <<-200, 2100, -50>>],
       [start |-> <<0, 1400, -50>>,  end |-> <<50, 1950, -150>>] >>

\* (a + b) / 2
Mean(a, b) == RatDiv(Int2Rat(a + b), Int2Rat(2))

\* The offset without the centring: Math.random() * 0.1.
JitterFromZero(r) == RatMul(r, Int2Rat(100))

\* (Math.random() - 0.5) * 0.1, in thousandths
Jitter(r) == RatMul(RatSub(r, Half), Int2Rat(100))

\* The three points of one wire with the end point nudged as well.
WirePtsLooseEnd(start, end, rx, rz) ==
    << Vector3(Int2Rat(start[1]), Int2Rat(start[2]), Int2Rat(start[3])),
       Vector3(RatAdd(Mean(start[1], end[1]), Jitter(rx)),
               Mean(start[2], end[2]),
               RatAdd(Mean(start[3], end[3]), Jitter(rz))),
       Vector3(RatAdd(Int2Rat(end[1]), Jitter(rx)), Int2Rat(end[2]), Int2Rat(end[3])) >>

\* The three points of one wire: start, jittered midpoint, end.
WirePts(start, end, rx, rz) ==
    << Vector3(Int2Rat(start[1]), Int2Rat(start[2]), Int2Rat(start[3])),
       Vector3(RatAdd(Mean(start[1], end[1]), Jitter(rx)),
               Mean(start[2], end[2]),
               RatAdd(Mean(start[3], end[3]), Jitter(rz))),
       Vector3(Int2Rat(end[1]), Int2Rat(end[2]), Int2Rat(end[3])) >>

\* The body of wirePositions.forEach for one wire, added to `group`.
\* new THREE.CatmullRomCurve3(pts) leaves `closed` at its default, false.
AddWire(h, group, materials, w, rx, rz) ==
    LET pts     == WirePts(w.start, w.end, rx, rz)
        curve   == CatmullRomCurve3(pts, FALSE)
        tubeGeo == TubeBufferGeometry(curve, 20, 15, 6, FALSE)
        wire    == NextNode(h)
        h1      == NewMesh(h, tubeGeo, materials.copper)
    IN  Add(h1, group, wire)

RECURSIVE WireLoop(_, _, _, _, _)
WireLoop(h, group, materials, k, rs) ==
    IF k > Len(wirePositions) THEN h
    ELSE WireLoop(AddWire(h, group, materials, wirePositions[k], rs[2 * k - 1], rs[2 * k]),
                  group, materials, k + 1, rs)

createWireLeads(h, materials, rs) ==
    LET group == NextNode(h)
        h1    == NewGroup(h)
    IN  Built(WireLoop(h1, group, materials, 1, rs), group)

(***************************************************************************)
(* SpecLeads: createWireLeads on every combination of six random draws     *)
(* from the grid 0, 1/RandDen, ..., (RandDen-1)/RandDen                    *)
(***************************************************************************)
RandDen == 3

Random == {Rat(k, RandDen) : k \in 0 .. RandDen - 1}

Draws == 2 * Len(wirePositions)


CallCreateWireLeads ==
    /\ leadsOut.status = "pending"
    /\ \E rs \in [1 .. Draws -> Random] :
          leadsOut' = Returned(createWireLeads(EmptyHeap, createMaterials(1), rs))
    /\ UNCHANGED <<coilVars, asmVars, viewVars>>

(***************************************************************************)
(* assembleStator, one step per statement group of its body, and its       *)
(* caller.  JavaScript runs a call to completion, so calls do not          *)
(* interleave.  An exception raised below assembleStator (by a builder, by *)
(* createCoilGeometry or by a THREE constructor) is caught nowhere in the  *)
(* file: it leaves assembleStator and its caller at once.                  *)
(***************************************************************************)
MaxCalls == 2

MaxPalettes == 2

\* The angles with the factor 2 forgotten: [0, Math.PI / 3, (2 * Math.PI) / 3].
armAnglesHalved == << Rat(0, 1), Rat(1, 3), Rat(2, 3) >>

\* const armAngles = [0, (2 * Math.PI) / 3, (4 * Math.PI) / 3], in units of pi
armAngles == << Rat(0, 1), Rat(2, 3), Rat(4, 3) >>

BuildSteps == {"hub", "plate", "bearing", "shaft", "arms", "post", "vertCoil", "leads"}

\* The running (or last) call, its root Group and its materials.
Cur == calls[Len(calls)]

Stator == Cur.stator

Materials == createMaterials(Cur.palette)

\* The six draws of one createWireLeads call in SpecAsm: a run of the grid
\* from a freely chosen first draw (SpecLeads covers every combination).
JitterRuns ==
    {[j \in 1 .. Draws |-> Rat((seed + j - 1) % RandDen, RandDen)] : seed \in 0 .. RandDen - 1}

\* assembleStator(materials) is entered: const stator = new THREE.Group()
Call ==
    /\ pc = "idle"
    /\ Len(calls) < MaxCalls
    /\ \E p \in 1 .. MaxPalettes :
          calls' = Append(calls, [palette |-> p, stator |-> NextNode(heap),
                                  baseNodes |-> Len(heap.nodes),
                                  baseGeoms |-> Len(heap.geoms),
                                  threw |-> FALSE, result |-> 0,
                                  inScene |-> FALSE])
    /\ heap' = NewGroup(heap)
    /\ pc' = "hub"
    /\ UNCHANGED <<armI, otherVars>>

StepHub ==
    /\ pc = "hub"
    /\ LET hub == createHub(heap, Materials)
       IN  heap' = Add(hub.heap, Stator, hub.id)
    /\ pc' = "plate"
    /\ UNCHANGED <<calls, armI, otherVars>>

StepPlate ==
    /\ pc = "plate"
    /\ LET plate == createBackingPlate(heap, Materials)
       IN  heap' = Add(plate.heap, Stator, plate.id)
    /\ pc' = "bearing"
    /\ UNCHANGED <<calls, armI, otherVars>>

StepBearing ==
    /\ pc = "bearing"
    /\ LET bearing == createBearing(heap, Materials)
           h1      == SetPosition(bearing.heap, bearing.id, "z", -200)
       IN  heap' = Add(h1, Stator, bearing.id)
    /\ pc' = "shaft"
    /\ UNCHANGED <<calls, armI, otherVars>>

StepShaft ==
    /\ pc = "shaft"
    /\ LET shaft == createShaft(heap, Materials)
       IN  heap' = Add(shaft.heap, Stator, shaft.id)
    /\ pc' = "arms"
    /\ armI' = 1
    /\ UNCHANGED <<calls, otherVars>>

\* One round of armAngles.forEach.
StepArm ==
    /\ pc = "arms"
    /\ armI <= Len(armAngles)
    /\ LET armUnit == createArmWithCoil(heap, Materials)
           h1      == SetRotation(armUnit.heap, armUnit.id, "y", armAngles[armI])
       IN  heap' = Add(h1, Stator, armUnit.id)
    /\ armI' = armI + 1
    /\ UNCHANGED <<calls, pc, otherVars>>

\* forEach is over.
ArmsDone ==
    /\ pc = "arms"
    /\ armI > Len(armAngles)
    /\ pc' = "post"
    /\ armI' = 0
    /\ UNCHANGED <<heap, calls, otherVars>>

StepPost ==
    /\ pc = "post"
    /\ LET vertPost == createVerticalPost(heap, Materials)
       IN  heap' = Add(vertPost.heap, Stator, vertPost.id)
    /\ pc' = "vertCoil"
    /\ UNCHANGED <<calls, armI, otherVars>>

StepVertCoil ==
    /\ pc = "vertCoil"
    /\ LET vertCoil == createVerticalCoil(heap, Materials)
       IN  heap' = Add(vertCoil.heap, Stator, vertCoil.id)
    /\ pc' = "leads"
    /\ UNCHANGED <<calls, armI, otherVars>>

StepLeads ==
    /\ pc = "leads"
    /\ \E rs \in JitterRuns :
          LET leads == createWireLeads(heap, Materials, rs)
          IN  heap' = Add(leads.heap, Stator, leads.id)
    /\ pc' = "return"
    /\ UNCHANGED <<calls, armI, otherVars>>

\* return stator: the caller's `const stator = assembleStator(materials)`
Return ==
    /\ pc = "return"
    /\ calls' = [calls EXCEPT ![Len(calls)].result = Stator]
    /\ pc' = "caller"
    /\ UNCHANGED <<heap, armI, otherVars>>

\* The caller's next statement, scene.add(stator); the caller's Scene is -c.
SceneAdd ==
    /\ pc = "caller"
    /\ calls' = [calls EXCEPT ![Len(calls)].inScene = TRUE]
    /\ heap' = [heap EXCEPT !.nodes[Cur.result].parent = -Len(calls)]
    /\ pc' = "idle"
    /\ UNCHANGED <<armI, otherVars>>

\* The exception swallowed: assembleStator goes on to its return statement
\* with the root as far as it was built.
ThrowCaught ==
    /\ pc \in BuildSteps
    /\ calls' = [calls EXCEPT ![Len(calls)].threw = TRUE]
    /\ pc' = "return"
    /\ armI' = 0
    /\ UNCHANGED <<heap, otherVars>>

\* An exception is raised during a build step and leaves assembleStator and
\* its caller: nothing is returned and the caller's remaining statements
\* are skipped.  The objects of the abandoned call are unreachable from
\* then on; the model drops them from the heap.
Throw ==
    /\ pc \in BuildSteps
    /\ calls' = [calls EXCEPT ![Len(calls)].threw = TRUE]
    /\ heap' = [nodes |-> SubSeq(heap.nodes, 1, Cur.baseNodes),
                geoms |-> SubSeq(heap.geoms, 1, Cur.baseGeoms)]
    /\ pc' = "idle"
    /\ armI' = 0
    /\ UNCHANGED otherVars

NextAsm ==
    \/ Call \/ StepHub \/ StepPlate \/ StepBearing \/ StepShaft \/ StepArm
    \/ ArmsDone \/ StepPost \/ StepVertCoil \/ StepLeads \/ Return \/ SceneAdd
    \/ Throw

(***************************************************************************)
(* The React effect of StatorModel: set-up, the animation loop, the resize *)
(* handler and the clean-up.  Each run of the effect (each mount) has its  *)
(* own closure: animId, renderer, controls, listener.  The browser runs    *)
(* one callback at a time, to completion.                                  *)
(***************************************************************************)
MaxMounts == 2

MaxRafIds == 4

MaxResizes == 2

MaxSizes == 2

Effects == 1 .. MaxMounts

\* An effect that has not run: nothing acquired.
NoEffect ==
    [status |-> "idle", animId |-> 0, listening |-> FALSE, canvas |-> FALSE,
     disposed |-> FALSE, rendererSize |-> 0, renders |-> 0, resizesHandled |-> 0,
     rendersAtCleanup |-> 0, resizesAtCleanup |-> 0]

IdleView ==
    /\ view = [e \in Effects |-> NoEffect]
    /\ rafPending = {}
    /\ rafNext = 1
    /\ size = 1
    /\ resizes = 0

\* requestAnimationFrame(animate) called from effect e's closure
Request(e) == [id |-> rafNext, owner |-> e]

\* cancelAnimationFrame(id)
Cancel(pending, id) == {r \in pending : r.id # id}

\* if (!container || !THREE) return: nothing is set up, no clean-up exists
MountSkipped(e) ==
    /\ view[e].status = "idle"
    /\ view' = [view EXCEPT ![e].status = "skipped"]
    /\ UNCHANGED <<rafPending, rafNext, size, resizes, coilVars, leadsOut, asmVars>>

\* The effect's body ends in an exception at assembleStator: the canvas was
\* appended before, the loop and the listener are never started and no
\* clean-up function is returned.
MountFails(e) ==
    /\ view[e].status = "idle"
    /\ view' = [view EXCEPT ![e].status = "failed", ![e].canvas = TRUE,
                            ![e].rendererSize = size]
    /\ UNCHANGED <<rafPending, rafNext, size, resizes, coilVars, leadsOut, asmVars>>

\* The effect's body runs to its end: renderer sized and canvas appended,
\* animate() called once (it requests a frame, then renders), the resize
\* listener added.
Mount(e) ==
    /\ view[e].status = "idle"
    /\ rafNext <= MaxRafIds
    /\ view' = [view EXCEPT ![e].status = "mounted", ![e].canvas = TRUE,
                            ![e].rendererSize = size,
                            ![e].animId = rafNext, ![e].renders = 1,
                            ![e].listening = TRUE]
    /\ rafPending' = rafPending \cup {Request(e)}
    /\ rafNext' = rafNext + 1
    /\ UNCHANGED <<size, resizes, coilVars, leadsOut, asmVars>>

\* The browser runs a pending request: animate() of its owner.
\*   animId = requestAnimationFrame(animate); controls.update(); render
FrameCallback(r) ==
    /\ r \in rafPending
    /\ rafNext <= MaxRafIds
    /\ rafPending' = (rafPending \ {r}) \cup {Request(r.owner)}
    /\ rafNext' = rafNext + 1
    /\ view' = [view EXCEPT ![r.owner].animId = rafNext,
                            ![r.owner].renders = @ + 1]
    /\ UNCHANGED <<size, resizes, coilVars, leadsOut, asmVars>>

\* The window is resized to s: onResize of every effect still listening.
ResizeEvent(s) ==
    /\ resizes < MaxResizes
    /\ resizes' = resizes + 1
    /\ size' = s
    /\ view' = [e \in Effects |->
                  IF view[e].listening
                  THEN [view[e] EXCEPT !.rendererSize = s, !.resizesHandled = @ + 1]
                  ELSE view[e]]
    /\ UNCHANGED <<rafPending, rafNext, coilVars, leadsOut, asmVars>>

\* The clean-up with the cancelAnimationFrame call left out.
CleanupWithoutCancel(e) ==
    /\ view[e].status = "mounted"
    /\ view' = [view EXCEPT ![e].status = "cleaned", ![e].listening = FALSE,
                            ![e].disposed = TRUE, ![e].canvas = FALSE,
                            ![e].rendersAtCleanup = view[e].renders,
                            ![e].resizesAtCleanup = view[e].resizesHandled]
    /\ UNCHANGED <<rafPending, rafNext, size, resizes, coilVars, leadsOut, asmVars>>

\* The function the effect returned, called by React on unmount.
Cleanup(e) ==
    /\ view[e].status = "mounted"
    /\ rafPending' = Cancel(rafPending, view[e].animId)
    /\ view' = [view EXCEPT ![e].status = "cleaned", ![e].listening = FALSE,
                            ![e].disposed = TRUE, ![e].canvas = FALSE,
                            ![e].rendersAtCleanup = view[e].renders,
                            ![e].resizesAtCleanup = view[e].resizesHandled]
    /\ UNCHANGED <<rafNext, size, resizes, coilVars, leadsOut, asmVars>>

NextView ==
    \/ \E e \in Effects : MountSkipped(e)
    \/ \E e \in Effects : MountFails(e)
    \/ \E e \in Effects : Mount(e)
    \/ \E r \in rafPending : FrameCallback(r)
    \/ \E s \in 1 .. MaxSizes : ResizeEvent(s)
    \/ \E e \in Effects : Cleanup(e)

(***************************************************************************)
(* SpecCoil: createCoilGeometry applied to arguments from bounded sets     *)
(***************************************************************************)
MaxTurns == 18

TurnsInputs == -1 .. MaxTurns

LengthInputs == {-720, 0, 720, 820}

InnerRadiusInputs == {200, 220}

WireRadiusInputs == {32, 35}

\* The variables a specification does not use stay at these values.
IdleCoil == coilArgs = [innerRadius |-> 0, length |-> 0, turns |-> 0, wireRadius |-> 0]
            /\ coilResult = Pending

IdleLeads == leadsOut = Pending

IdleAsm == heap = EmptyHeap /\ calls = <<>> /\ pc = "idle" /\ armI = 0

InitCoil ==
    /\ IdleLeads /\ IdleAsm /\ IdleView
    /\ coilArgs \in [innerRadius : InnerRadiusInputs, length : LengthInputs,
                     turns : TurnsInputs, wireRadius : WireRadiusInputs]
    /\ coilResult = Pending

CallCreateCoilGeometry ==
    /\ coilResult.status = "pending"
    /\ coilResult' = createCoilGeometry(coilArgs.innerRadius, coilArgs.length,
                                          coilArgs.turns, coilArgs.wireRadius)
    /\ UNCHANGED <<coilArgs, leadsOut, asmVars, viewVars>>

NextCoil == CallCreateCoilGeometry

SpecCoil == InitCoil /\ [][NextCoil]_vars

InitLeads == IdleCoil /\ IdleAsm /\ IdleView /\ IdleLeads

NextLeads == CallCreateWireLeads

SpecLeads == InitLeads /\ [][NextLeads]_vars

InitAsm == IdleCoil /\ IdleLeads /\ IdleView /\ IdleAsm

SpecAsm == InitAsm /\ [][NextAsm]_vars

InitView == IdleCoil /\ IdleLeads /\ IdleAsm /\ IdleView

SpecView == InitView /\ [][NextView]_vars

(***************************************************************************)
(* Properties of createCoilGeometry (checked under SpecCoil)               *)
(***************************************************************************)
CoilCalled == coilResult.status # "pending"

ValidCoilArgs ==
    /\ coilArgs.innerRadius > 0
    /\ coilArgs.length > 0
    /\ coilArgs.turns >= 1
    /\ coilArgs.wireRadius > 0

\* The sample points of the curve of the returned tube.
ResultPoints == coilResult.value.path.points

\* C3: on valid arguments createCoilGeometry returns a tube whose curve has
\* exactly turns * 32 + 1 points, the k-th of them being sample i = k - 1
\* (its angle is i / 16 of pi); 18 turns give 577 points, 14 turns 449.
C3_SamplePointCount ==
    (CoilCalled /\ ValidCoilArgs) =>
        /\ coilResult.status = "returned"
        /\ Len(ResultPoints) = coilArgs.turns * 32 + 1
        /\ \A k \in 1 .. Len(ResultPoints) :
              /\ ResultPoints[k].x.a = Rat(k - 1, 16)
              /\ ResultPoints[k].z.a = Rat(k - 1, 16)
        /\ (coilArgs.turns = 18 => Len(ResultPoints) = 577)
        /\ (coilArgs.turns = 14 => Len(ResultPoints) = 449)

C3_Witness ==
    /\ ValidCoilArgs
    /\ coilArgs.turns = 18
    /\ coilResult.status = "returned"
    /\ Len(ResultPoints) = 577
    /\ ResultPoints[577].x.a = Rat(36, 1)

\* C4 (as claimed): a call with turns <= 0 or length <= 0 fails with an
\* error and never returns a geometry.
C4_RejectsNonPositive ==
    (CoilCalled /\ (coilArgs.turns <= 0 \/ coilArgs.length <= 0)) =>
        coilResult.status = "thrown"

\* C6: on valid arguments the k-th point's axial coordinate is
\* (i / N - 1/2) * length with i = k - 1 and N = turns * 32; the first is
\* -length / 2, the last +length / 2, the coordinate strictly increases with
\* i and every point lies in [-length / 2, +length / 2].
C6_AxialCoordinates ==
    (CoilCalled /\ ValidCoilArgs /\ coilResult.status = "returned") =>
        LET pts == ResultPoints
            N   == coilArgs.turns * 32
            lo  == Rat(-coilArgs.length, 2)
            hi  == Rat(coilArgs.length, 2)
        IN  /\ Len(pts) >= 2
            /\ \A k \in 1 .. Len(pts) :
                  /\ pts[k].y = Rat((2 * (k - 1) - N) * coilArgs.length, 2 * N)
                  /\ RatLE(lo, pts[k].y)
                  /\ RatLE(pts[k].y, hi)
            /\ pts[1].y = lo
            /\ pts[Len(pts)].y = hi
            /\ \A k \in 1 .. Len(pts) - 1 : RatLT(pts[k].y, pts[k + 1].y)

C6_Witness ==
    /\ ValidCoilArgs
    /\ coilArgs.length = 720
    /\ coilArgs.turns = 18
    /\ coilResult.status = "returned"
    /\ ResultPoints[1].y = Rat(-360, 1)
    /\ ResultPoints[577].y = Rat(360, 1)
    /\ ResultPoints[289].y = Rat(0, 1)

(***************************************************************************)
(* Properties of createWireLeads (checked under SpecLeads)                 *)
(***************************************************************************)
\* The geometry of Mesh `id` and the children of node `id` in heap h.
GeometryOf(h, id) == h.geoms[h.nodes[id].geometry]

ChildrenOf(h, id) == h.nodes[id].children

\* |p - q| <= bound
RatWithin(p, q, bound) ==
    /\ RatLE(RatSub(p, q), Int2Rat(bound))
    /\ RatLE(Int2Rat(-bound), RatSub(p, q))

\* The wires of the returned bundle and the points of the k-th wire's curve.
LeadWires == ChildrenOf(leadsOut.value.heap, leadsOut.value.id)

LeadPoints(k) == GeometryOf(leadsOut.value.heap, LeadWires[k]).path.points

\* C9: each of the 3 wires is a curve through exactly 3 points, its fixed
\* start, its fixed end and a midpoint whose x and z are within 0.05 of the
\* mean of start and end and whose y is exactly that mean, whatever the six
\* random draws were.
C9_LeadWireMidpoints ==
    leadsOut.status = "returned" =>
        /\ Len(LeadWires) = 3
        /\ \A k \in 1 .. Len(LeadWires) :
              LET pts == LeadPoints(k)
                  s   == wirePositions[k].start
                  e   == wirePositions[k].end
              IN  /\ Len(pts) = 3
                  /\ pts[1] = Vector3(Int2Rat(s[1]), Int2Rat(s[2]), Int2Rat(s[3]))
                  /\ pts[3] = Vector3(Int2Rat(e[1]), Int2Rat(e[2]), Int2Rat(e[3]))
                  /\ RatWithin(pts[2].x, Rat(s[1] + e[1], 2), 50)
                  /\ RatWithin(pts[2].z, Rat(s[3] + e[3], 2), 50)
                  /\ pts[2].y = Rat(s[2] + e[2], 2)

\* A bundle whose first wire's midpoint sits at the lower bound in x (the
\* draw was 0) and off the mean in z (a draw other than 1/2).
C9_Witness ==
    /\ leadsOut.status = "returned"
    /\ Len(LeadWires) = 3
    /\ LeadPoints(1)[2].x = Rat(125 - 50, 1)
    /\ LeadPoints(1)[2].y = Rat(1700, 1)
    /\ LeadPoints(1)[2].z # Rat(50, 1)
    /\ LeadPoints(3)[2].y = Rat(1675, 1)

(***************************************************************************)
(* Properties of assembleStator (checked under SpecAsm)                    *)
(***************************************************************************)
Nodes == 1 .. Len(heap.nodes)

\* The calls that returned a root, and the root of call c.
ReturnedCalls == {c \in 1 .. Len(calls) : calls[c].result # 0}

RootOf(c) == calls[c].result

IsMeshOf(id, geometryType) ==
    /\ heap.nodes[id].type = "Mesh"
    /\ GeometryOf(heap, id).type = geometryType

IsGroupOf(id, n, geometryType) ==
    /\ heap.nodes[id].type = "Group"
    /\ Len(ChildrenOf(heap, id)) = n
    /\ \A k \in 1 .. n : IsMeshOf(ChildrenOf(heap, id)[k], geometryType)

\* An arm (Group of 3 boxes) and, beside it, a coil (a tube Mesh).
IsArmWithCoil(id) ==
    /\ heap.nodes[id].type = "Group"
    /\ Len(ChildrenOf(heap, id)) = 2
    /\ IsGroupOf(ChildrenOf(heap, id)[1], 3, "BoxBufferGeometry")
    /\ IsMeshOf(ChildrenOf(heap, id)[2], "TubeBufferGeometry")

\* Which part of the stator node `id` is, read off its structure.
PartKind(id) ==
    CASE IsArmWithCoil(id) -> "armWithCoil"
      [] IsGroupOf(id, 4, "BoxBufferGeometry") -> "post"
      [] IsGroupOf(id, 3, "TubeBufferGeometry") -> "leads"
      [] /\ heap.nodes[id].type = "Group"
         /\ Len(ChildrenOf(heap, id)) = 2
         /\ IsMeshOf(ChildrenOf(heap, id)[1], "BoxBufferGeometry")
         /\ IsMeshOf(ChildrenOf(heap, id)[2], "CylinderBufferGeometry") -> "hub"
      [] /\ heap.nodes[id].type = "Group"
         /\ Len(ChildrenOf(heap, id)) = 3
         /\ IsMeshOf(ChildrenOf(heap, id)[1], "TorusBufferGeometry")
         /\ IsMeshOf(ChildrenOf(heap, id)[2], "TorusBufferGeometry")
         /\ IsMeshOf(ChildrenOf(heap, id)[3], "CylinderBufferGeometry") -> "bearing"
      [] IsMeshOf(id, "TubeBufferGeometry") -> "vertCoil"
      [] IsMeshOf(id, "CylinderBufferGeometry")
            /\ heap.nodes[id].material.name = "white" -> "plate"
      [] IsMeshOf(id, "CylinderBufferGeometry")
            /\ heap.nodes[id].material.name = "darkMetal" -> "shaft"
      [] OTHER -> "unknown"

\* How many direct children of `root` are parts of kind `kind`.
CountKind(root, kind) ==
    Cardinality({k \in 1 .. Len(ChildrenOf(heap, root)) :
                    PartKind(ChildrenOf(heap, root)[k]) = kind})

\* An angle (in units of pi) in degrees, normalised into [0, 360).
Degrees(angle) ==
    LET d == RatMul(angle, Int2Rat(180))
    IN  Rat(d[1] % (360 * d[2]), d[2])

\* The positions, among the children of `root`, of the arm-with-coil units.
ArmUnits(root) ==
    {k \in 1 .. Len(ChildrenOf(heap, root)) : IsArmWithCoil(ChildrenOf(heap, root)[k])}

ArmRotation(root, k) == heap.nodes[ChildrenOf(heap, root)[k]].rotation

\* C1: every returned root has exactly 3 arm-with-coil units, rotated about
\* the Y axis only, one at each of 0, 120 and 240 degrees (mod 360).
C1_ArmAngles ==
    \A c \in ReturnedCalls :
        /\ Cardinality(ArmUnits(RootOf(c))) = 3
        /\ \A k \in ArmUnits(RootOf(c)) :
              /\ ArmRotation(RootOf(c), k).x = Zero
              /\ ArmRotation(RootOf(c), k).z = Zero
        /\ \A a \in {0, 120, 240} :
              Cardinality({k \in ArmUnits(RootOf(c)) :
                  Degrees(ArmRotation(RootOf(c), k).y) = Int2Rat(a)}) = 1

C1_Witness ==
    \E c \in ReturnedCalls :
        /\ ArmUnits(RootOf(c)) = {5, 6, 7}
        /\ Degrees(ArmRotation(RootOf(c), 5).y) = Int2Rat(0)
        /\ Degrees(ArmRotation(RootOf(c), 6).y) = Int2Rat(120)
        /\ Degrees(ArmRotation(RootOf(c), 7).y) = Int2Rat(240)

\* C2: every returned root has 10 direct children: 1 hub, 1 backing plate,
\* 1 bearing, 1 shaft, 3 arm-with-coil units, 1 vertical post, 1 vertical
\* coil and 1 bundle of exactly 3 lead wires; only the arm unit is repeated.
C2_Composition ==
    \A c \in ReturnedCalls :
        /\ Len(ChildrenOf(heap, RootOf(c))) = 10
        /\ CountKind(RootOf(c), "armWithCoil") = 3
        /\ \A kind \in {"hub", "plate", "bearing", "shaft", "post", "vertCoil", "leads"} :
              CountKind(RootOf(c), kind) = 1
        /\ CountKind(RootOf(c), "unknown") = 0
        /\ Cardinality(Range(ChildrenOf(heap, RootOf(c)))) = 10

C2_Witness ==
    \E c \in ReturnedCalls :
        /\ [k \in 1 .. 10 |-> PartKind(ChildrenOf(heap, RootOf(c))[k])]
              = << "hub", "plate", "bearing", "shaft", "armWithCoil", "armWithCoil",
                   "armWithCoil", "post", "vertCoil", "leads" >>
        /\ Len(ChildrenOf(heap, ChildrenOf(heap, RootOf(c))[10])) = 3

\* The nodes of the tree under `id`, `id` included.
RECURSIVE Tree(_)
Tree(id) == {id} \cup UNION {Tree(ChildrenOf(heap, id)[k]) : k \in 1 .. Len(ChildrenOf(heap, id))}

Meshes == {n \in Nodes : heap.nodes[n].type = "Mesh"}

\* C5: every node has exactly one parent Group (the one that lists it, once)
\* or none; the trees of two returned roots share no node; no geometry is
\* referred to by two Meshes.  Only materials are shared.
C5_Ownership ==
    /\ \A p \in Nodes :
          /\ \A k \in 1 .. Len(ChildrenOf(heap, p)) :
                heap.nodes[ChildrenOf(heap, p)[k]].parent = p
          /\ Cardinality(Range(ChildrenOf(heap, p))) = Len(ChildrenOf(heap, p))
          /\ Len(ChildrenOf(heap, p)) > 0 => heap.nodes[p].type = "Group"
    /\ \A n \in Nodes :
          heap.nodes[n].parent > 0 => n \in Range(ChildrenOf(heap, heap.nodes[n].parent))
    /\ \A c \in ReturnedCalls :
          /\ heap.nodes[RootOf(c)].parent \in {0, -c}
          /\ \A d \in ReturnedCalls : c # d => Tree(RootOf(c)) \cap Tree(RootOf(d)) = {}
    /\ \A m \in Meshes : heap.nodes[m].geometry \in 1 .. Len(heap.geoms)
    /\ Cardinality({heap.nodes[m].geometry : m \in Meshes}) = Cardinality(Meshes)

\* Two returned trees, both handed to their scenes, built on one palette:
\* they share materials and nothing else.
C5_Witness ==
    \E c, d \in ReturnedCalls :
        /\ c # d
        /\ calls[c].inScene /\ calls[d].inScene
        /\ calls[c].palette = calls[d].palette
        /\ Cardinality(Tree(RootOf(c))) = 38
        /\ Cardinality(Tree(RootOf(d))) = 38
        /\ {heap.nodes[n].material : n \in Tree(RootOf(c))}
              = {heap.nodes[n].material : n \in Tree(RootOf(d))}

\* C7: a call in which an exception was raised returns no root and nothing of
\* it reaches a scene; a root is returned, and a scene is given a root, only
\* complete (all 10 parts); no part-built root is ever in a scene.
C7_AllOrNothing ==
    \A c \in 1 .. Len(calls) :
        /\ calls[c].threw => (calls[c].result = 0 /\ ~calls[c].inScene)
        /\ calls[c].inScene => calls[c].result # 0
        /\ calls[c].result # 0 =>
              /\ calls[c].result = calls[c].stator
              /\ Len(ChildrenOf(heap, calls[c].result)) = 10
              /\ CountKind(calls[c].result, "unknown") = 0

\* One call failed and left nothing; a later call returned a complete root.
C7_Witness ==
    \E c, d \in 1 .. Len(calls) :
        /\ c < d
        /\ calls[c].threw /\ calls[c].result = 0 /\ ~calls[c].inScene
        /\ calls[d].inScene /\ Len(ChildrenOf(heap, calls[d].result)) = 10

\* The point that stands for a lead wire's midpoint when it is left out.
NoPoint == Vector3(NaN, NaN, NaN)

\* A geometry with the midpoint of a 3-point curve (a lead wire) left out.
WithoutMidpoint(g) ==
    IF g.type = "TubeBufferGeometry" /\ Len(g.path.points) = 3
    THEN [g EXCEPT !.path.points[2] = NoPoint]
    ELSE g

\* The tree under `id` as a value without object identities: each node's
\* kind, geometry (parameters), material, position, rotation and children
\* in order.  `whole` keeps the lead wires' midpoints.
RECURSIVE Shape(_, _)
Shape(id, whole) ==
    [type     |-> heap.nodes[id].type,
     geometry |-> IF heap.nodes[id].type = "Mesh"
                  THEN IF whole THEN GeometryOf(heap, id)
                       ELSE WithoutMidpoint(GeometryOf(heap, id))
                  ELSE [type |-> "none"],
     material |-> heap.nodes[id].material,
     position |-> heap.nodes[id].position,
     rotation |-> heap.nodes[id].rotation,
     children |-> [k \in 1 .. Len(ChildrenOf(heap, id)) |->
                      Shape(ChildrenOf(heap, id)[k], whole)]]

\* C8: two roots returned for the same palette are equal as trees (child
\* order, shapes and their parameters, positions, rotations, material
\* references) in everything but the midpoints of the 3 lead wires.
C8_SameUpToMidpoints ==
    \A c, d \in ReturnedCalls :
        calls[c].palette = calls[d].palette =>
            Shape(RootOf(c), FALSE) = Shape(RootOf(d), FALSE)

\* Two roots returned for one palette that do differ, in the midpoints only.
C8_Witness ==
    \E c, d \in ReturnedCalls :
        /\ c # d
        /\ calls[c].palette = calls[d].palette
        /\ Shape(RootOf(c), TRUE) # Shape(RootOf(d), TRUE)
        /\ Shape(RootOf(c), FALSE) = Shape(RootOf(d), FALSE)

(***************************************************************************)
(* Properties of the effect's life cycle (checked under SpecView)          *)
(***************************************************************************)
RequestsOf(e) == {r \in rafPending : r.owner = e}

\* C10: while an effect is mounted, animate has exactly one pending frame
\* request, the one whose id animId holds, and the listener and the canvas
\* are in place; once its clean-up has run, it has no pending request, no
\* listener and no canvas, and it renders and handles resizes no more.
C10_ViewportLifecycle ==
    \A e \in Effects :
        /\ view[e].status = "mounted" =>
              /\ RequestsOf(e) = {[id |-> view[e].animId, owner |-> e]}
              /\ view[e].listening
              /\ view[e].canvas
        /\ view[e].status = "cleaned" =>
              /\ RequestsOf(e) = {}
              /\ ~view[e].listening
              /\ ~view[e].canvas
              /\ view[e].disposed
              /\ view[e].renders = view[e].rendersAtCleanup
              /\ view[e].resizesHandled = view[e].resizesAtCleanup

\* An effect cleaned up after two frames and one resize, while another one,
\* still mounted, went on to render and to handle a later resize.
C10_Witness ==
    \E e, f \in Effects :
        /\ view[e].status = "cleaned"
        /\ view[e].renders >= 2
        /\ view[e].resizesHandled = 1
        /\ view[f].status = "mounted"
        /\ view[f].resizesHandled = 2
        /\ view[f].rendererSize # view[e].rendererSize
        /\ view[f].animId > view[e].animId

====
